---- MODULE Spec2Model ----
(***************************************************************************)
(* Model of the two example servers of api-productos-jwt:                  *)
(*   "products"  : src/unnamed/part_000  (routes /auth, /products)         *)
(*   "productos" : src/api_productos_con_auth_express_jwt.js, first copy   *)
(*                 in the file (routes /auth, /productos)                  *)
(* One behaviour is one run of one server process; which one is fixed by   *)
(* Init.  Time is the integer number of seconds jsonwebtoken works with    *)
(* (Math.floor(Date.now() / 1000)).  A request is handled to completion:   *)
(* the middleware and the route handler run in the same turn of the event  *)
(* loop (jwt.verify with a string secret calls its callback               *)
(* synchronously), so no other request runs between them.  assigned is a   *)
(* history variable: the ids given so far to products of the running       *)
(* server's list, the initial ones included.                               *)
(***************************************************************************)
EXTENDS Integers, Sequences, FiniteSets, TLC

VARIABLES server, now, ticks, USERS, JWT_SECRET, products, nextProductId,
          productos, issued, expiredSeen, login, auth, req, res, assigned

vars == <<server, now, ticks, USERS, JWT_SECRET, products, nextProductId,
          productos, issued, expiredSeen, login, auth, req, res, assigned>>

shared == <<USERS, JWT_SECRET, products, nextProductId, productos>>

-----------------------------------------------------------------------------
(* Bounds of the model *)

MaxTicks == 2
MaxLogins == 1
MaxProductId == 3
MaxProducts == 3

(* Program constants *)

TOKEN_EXPIRATION == 3600
EXPIRES_10M == 600

-----------------------------------------------------------------------------
(* JavaScript values: undefined, numbers and strings, kept apart by a tag *)

Undef == [t |-> "undefined", v |-> ""]
Num(s) == [t |-> "number", v |-> s]
Str(s) == [t |-> "string", v |-> s]
NaN == Num("NaN")

NumericStrings == {"100", "15"}

\* Number(x) as used by POST /products
Number(x) ==
  IF x.t = "number" THEN x
  ELSE IF x.t = "string"
       THEN (IF x.v = "" THEN Num("0")
             ELSE IF x.v \in NumericStrings THEN Num(x.v) ELSE NaN)
       ELSE NaN

\* !x for the values a body field can take
Falsy(x) == x.t = "undefined" \/ (x.t = "string" /\ x.v = "")
                \/ (x.t = "number" /\ x.v \in {"0", "NaN"})

\* x == null  (true of undefined and null only)
IsNullish(x) == x.t = "undefined"

-----------------------------------------------------------------------------
(* Initial data *)

InitUsers ==
  << [id |-> Num("1"), username |-> Str("admin"),
      password |-> Str("password123"), role |-> Str("admin")] >>

InitProducts ==
  << [id |-> 1, name |-> Str("Zapatillas"), price |-> Num("79.9"), stock |-> Num("10")],
     [id |-> 2, name |-> Str("Camiseta"), price |-> Num("19.9"), stock |-> Num("50")] >>

SecretOf(s) ==
  IF s = "products" THEN "mi_secreto_super_seguro_123" ELSE "miclaveultrasecreta"

Ttl(s) == IF s = "products" THEN TOKEN_EXPIRATION ELSE EXPIRES_10M

-----------------------------------------------------------------------------
(* Token service: jsonwebtoken's sign and verify as the servers call them.  *)
(* A token is the list of its dot-separated segments: header, payload,      *)
(* signature.  The signature is an ideal MAC: it names what was signed and  *)
(* the key it was signed with, and nothing else produces it.                *)

JwtHeader == [alg |-> "HS256", typ |-> "JWT"]

Sign(header, payload, key) == [over |-> <<header, payload>>, key |-> key]

\* jwt.sign(payload, key, { expiresIn }) at clock t: iat and exp are added
\* to the payload, then header and payload are signed
jwt_sign(payload, key, expiresIn, t) ==
  LET claim == payload @@ [iat |-> t, exp |-> t + expiresIn]
  IN  [jwt |-> <<JwtHeader, claim, Sign(JwtHeader, claim, key)>>]

NoUser == [none |-> TRUE]
NoToken == [undefined |-> TRUE]

\* a word of a header that is plain text (no dots), e.g. "Bearer", "abc", ""
W(s) == [text |-> s]

VerifyExpiredMutant(word, key, t) ==
  IF "undefined" \in DOMAIN word THEN [err |-> "jwt must be provided", user |-> NoUser]
  ELSE IF "text" \in DOMAIN word
  THEN (IF word.text = "" THEN [err |-> "jwt must be provided", user |-> NoUser]
        ELSE [err |-> "jwt malformed", user |-> NoUser])
  ELSE IF Len(word.jwt) # 3 THEN [err |-> "jwt malformed", user |-> NoUser]
  ELSE IF word.jwt[3] # Sign(word.jwt[1], word.jwt[2], key)
       THEN [err |-> "invalid signature", user |-> NoUser]
  ELSE IF t > word.jwt[2].exp THEN [err |-> "jwt expired", user |-> NoUser]
  ELSE [err |-> "", user |-> word.jwt[2]]

VerifyNoSignatureMutant(word, key, t) ==
  IF "undefined" \in DOMAIN word THEN [err |-> "jwt must be provided", user |-> NoUser]
  ELSE IF "text" \in DOMAIN word
  THEN (IF word.text = "" THEN [err |-> "jwt must be provided", user |-> NoUser]
        ELSE [err |-> "jwt malformed", user |-> NoUser])
  ELSE IF Len(word.jwt) # 3 THEN [err |-> "jwt malformed", user |-> NoUser]
  ELSE IF t >= word.jwt[2].exp THEN [err |-> "jwt expired", user |-> NoUser]
  ELSE [err |-> "", user |-> word.jwt[2]]

\* jwt.verify(token, key, callback): the (err, user) pair the callback gets.
\* Order of the checks: presence, segment count, signature, expiry
\* (clockTimestamp >= payload.exp is expired).
jwt_verify(word, key, t) ==
  IF "undefined" \in DOMAIN word THEN [err |-> "jwt must be provided", user |-> NoUser]
  ELSE IF "text" \in DOMAIN word
  THEN (IF word.text = "" THEN [err |-> "jwt must be provided", user |-> NoUser]
        ELSE [err |-> "jwt malformed", user |-> NoUser])
  ELSE IF Len(word.jwt) # 3 THEN [err |-> "jwt malformed", user |-> NoUser]
  ELSE IF word.jwt[3] # Sign(word.jwt[1], word.jwt[2], key)
       THEN [err |-> "invalid signature", user |-> NoUser]
  ELSE IF t >= word.jwt[2].exp THEN [err |-> "jwt expired", user |-> NoUser]
  ELSE [err |-> "", user |-> word.jwt[2]]

\* a payload that leaves the role out
GenerateTokenNoRole(user, key, t) ==
  jwt_sign([id |-> user.id, username |-> user.username, role |-> Undef],
           key, TOKEN_EXPIRATION, t)

\* generateToken(user) of the /products server
generateToken(user, key, t) ==
  jwt_sign([id |-> user.id, username |-> user.username, role |-> user.role],
           key, TOKEN_EXPIRATION, t)

-----------------------------------------------------------------------------
(* Authorization header: absent, or a string given as its characters       *)
(* grouped into words and single spaces.                                    *)

SP == [sp |-> TRUE]
NoHeader == [present |-> FALSE, atoms |-> <<>>]
Hdr(atoms) == [present |-> TRUE, atoms |-> atoms]

RECURSIVE SplitFrom(_, _, _)
SplitFrom(atoms, i, cur) ==
  IF i > Len(atoms) THEN <<cur>>
  ELSE IF atoms[i] = SP THEN <<cur>> \o SplitFrom(atoms, i + 1, W(""))
  ELSE SplitFrom(atoms, i + 1, atoms[i])

\* authHeader.split(' ')
split(h) == SplitFrom(h.atoms, 1, W(""))

\* !authHeader
HeaderFalsy(h) == ~h.present \/ h.atoms = <<>>

\* the middleware answers (status, body) and the handler does not run;
\* err is the error jwt.verify gave, token the word it was given
Reject(status, json, body, err, token) ==
  [next |-> FALSE, status |-> status, json |-> json, body |-> body,
   err |-> err, user |-> NoUser, token |-> token]

\* the middleware sets req.user and calls next()
Admit(user, token) ==
  [next |-> TRUE, status |-> 0, json |-> FALSE, body |-> "", err |-> "",
   user |-> user, token |-> token]

\* authenticateToken(req, res, next): what it answers, or next() with req.user
authenticateToken(h, key, t) ==
  IF HeaderFalsy(h)
  THEN Reject(401, TRUE, "No se encontro el header Authorization", "", NoToken)
  ELSE LET parts == split(h)
       IN  IF Len(parts) # 2 \/ parts[1] # W("Bearer")
           THEN Reject(401, TRUE, "Formato de Authorization: Bearer <token>", "",
                       NoToken)
           ELSE LET v == jwt_verify(parts[2], key, t)
                IN  IF v.err # ""
                    THEN Reject(403, TRUE, "Token invalido o expirado", v.err,
                                parts[2])
                    ELSE Admit(v.user, parts[2])

\* verificarToken(req, res, next) of the /productos server; res.sendStatus(403)
\* answers the plain text "Forbidden"
verificarToken(h, key, t) ==
  IF HeaderFalsy(h) THEN Reject(403, FALSE, "Forbidden", "", NoToken)
  ELSE LET parts == split(h)
           token == IF Len(parts) >= 2 THEN parts[2] ELSE NoToken
           v == jwt_verify(token, key, t)
       IN  IF v.err # "" THEN Reject(403, FALSE, "Forbidden", v.err, token)
           ELSE Admit(v.user, token)

-----------------------------------------------------------------------------
(* Requests and responses.  auth is what the middleware decided on the      *)
(* header of the request being handled or last handled (ran: it did run),   *)
(* res the answer the request got, login the credentials of a POST /auth;   *)
(* they describe one exchange, at the current clock reading, and are        *)
(* forgotten when the clock moves on or another exchange begins.  req is    *)
(* the request between next() and its handler.                              *)

EmptyBody == [name |-> Undef, price |-> Undef, stock |-> Undef]

\* req.body of a product request, a field missing from the JSON being undefined
Bodies ==
  { EmptyBody,
    [name |-> Str("blusa"), price |-> Undef, stock |-> Undef],
    [name |-> Str("blusa"), price |-> Str("100"), stock |-> Num("15")] }

Usernames == {Undef, Str("admin"), Str("emilys")}
Passwords == {Undef, Str("password123"), Str("emilyspass")}

PathIds == 1..MaxProductId

Methods == {"POST", "PUT", "DELETE"}

NoReq == [method |-> "", path |-> "", id |-> 0, body |-> EmptyBody, user |-> NoUser]

NoAuth ==
  [ran |-> FALSE, header |-> NoHeader, next |-> FALSE, err |-> "",
   user |-> NoUser, token |-> NoToken]

\* the credentials of the last POST /auth
NoLogin == [username |-> Undef, password |-> Undef, none |-> TRUE]

NoRes == [status |-> 0, json |-> FALSE, key |-> "", body |-> "", token |-> NoToken]

Res(status, json, key, body) ==
  [status |-> status, json |-> json, key |-> key, body |-> body, token |-> NoToken]

\* what a client can put after the scheme: tokens it was given, altered copies
\* of them, tokens it signed itself with another key, and text that is no token
Known == {e.token : e \in issued}

AlterClaim(tok) ==
  [jwt |-> <<tok.jwt[1], [tok.jwt[2] EXCEPT !.exp = @ + Ttl(server)], tok.jwt[3]>>]

AlterSignature(tok) ==
  [jwt |-> <<tok.jwt[1], tok.jwt[2], Sign(tok.jwt[1], tok.jwt[2], "otra_clave")>>]

Forged(t) ==
  jwt_sign([id |-> Num("1"), username |-> Str("admin"), role |-> Str("admin")],
           "otra_clave", Ttl(server), t)

Headers ==
  { NoHeader, Hdr(<<>>), Hdr(<<W("Bearer")>>), Hdr(<<W("Bearer"), SP>>),
    Hdr(<<W("Basic"), SP, W("abc")>>), Hdr(<<W("Bearer"), SP, W("abc")>>),
    Hdr(<<W("Bearer"), SP, Forged(now)>>) }
  \cup UNION { { Hdr(<<W("Bearer"), SP, tok>>),
                 Hdr(<<W("Basic"), SP, tok>>),
                 Hdr(<<W("bearer"), SP, tok>>),
                 Hdr(<<W("Bearer"), SP, tok, SP, W("extra")>>),
                 Hdr(<<W("Bearer"), SP, AlterClaim(tok)>>),
                 Hdr(<<W("Bearer"), SP, AlterSignature(tok)>>) } : tok \in Known }

\* the headers of the runs that exercise the product list
FewHeaders == {NoHeader} \cup {Hdr(<<W("Bearer"), SP, tok>>) : tok \in Known}

Collection == IF server = "products" THEN "/products" ELSE "/productos"

\* the mutating requests a client sends
Requests ==
  { [method |-> "POST", path |-> Collection, id |-> 0, body |-> b] : b \in Bodies }
  \cup { [method |-> "PUT", path |-> Collection \o "/:id", id |-> i, body |-> b] :
           i \in PathIds, b \in Bodies }
  \cup { [method |-> "DELETE", path |-> Collection \o "/:id", id |-> i,
          body |-> EmptyBody] : i \in PathIds }

\* one request of each method, for the runs that exercise the clock and the
\* headers
FewRequests ==
  { [method |-> "POST", path |-> Collection, id |-> 0,
     body |-> [name |-> Str("blusa"), price |-> Str("100"), stock |-> Num("15")]],
    [method |-> "PUT", path |-> Collection \o "/:id", id |-> 2,
     body |-> [name |-> Str("blusa"), price |-> Undef, stock |-> Undef]],
    [method |-> "DELETE", path |-> Collection \o "/:id", id |-> 2,
     body |-> EmptyBody] }

-----------------------------------------------------------------------------
(* List helpers *)

\* products.findIndex(x => x.id === id), 0 when there is none
FindIndex(list, id) ==
  IF \E i \in 1..Len(list) : list[i].id = id
  THEN CHOOSE i \in 1..Len(list) :
         list[i].id = id /\ \A j \in 1..(i - 1) : list[j].id # id
  ELSE 0

\* list.splice(i, 1)
RemoveAt(list, i) == [j \in 1..(Len(list) - 1) |-> IF j < i THEN list[j] ELSE list[j + 1]]

\* list.filter(p => p.id != id)
FilterOut(list, id) == SelectSeq(list, LAMBDA p : p.id # id)

\* a lookup that compares the username only
FindUserByName(username, password) ==
  LET hits == {i \in 1..Len(USERS) : USERS[i].username = username}
  IN  IF hits = {} THEN NoUser
      ELSE USERS[CHOOSE i \in hits : \A j \in hits : i <= j]

\* USERS.find(u => u.username === username && u.password === password)
FindUser(username, password) ==
  LET hits == {i \in 1..Len(USERS) :
                 USERS[i].username = username /\ USERS[i].password = password}
  IN  IF hits = {} THEN NoUser
      ELSE USERS[CHOOSE i \in hits : \A j \in hits : i <= j]

-----------------------------------------------------------------------------
Init ==
  /\ server \in {"products", "productos"}
  /\ now = 0
  /\ ticks = 0
  /\ USERS = (IF server = "products" THEN InitUsers ELSE <<>>)
  /\ JWT_SECRET = SecretOf(server)
  /\ products = (IF server = "products" THEN InitProducts ELSE <<>>)
  /\ nextProductId = 3
  /\ productos = (IF server = "productos" THEN InitProducts ELSE <<>>)
  /\ issued = {}
  /\ expiredSeen = {}
  /\ login = NoLogin
  /\ auth = NoAuth
  /\ req = NoReq
  /\ res = NoRes
  /\ assigned = {InitProducts[i].id : i \in 1..Len(InitProducts)}

Idle == req = NoReq

\* the wall clock moves on between requests
Tick ==
  /\ Idle
  /\ ticks < MaxTicks
  /\ \E d \in {1, Ttl(server) - 1} : now' = now + d
  /\ ticks' = ticks + 1
  /\ auth' = NoAuth
  /\ login' = NoLogin
  /\ res' = NoRes
  /\ UNCHANGED <<server, USERS, JWT_SECRET, products, nextProductId, productos,
                 issued, expiredSeen, req,
                 assigned>>

-----------------------------------------------------------------------------
(* Unprotected routes *)

\* app.post('/auth') of the /products server
ProductsAuth ==
  /\ server = "products"
  /\ Idle
  /\ \E username \in Usernames, password \in Passwords :
       LET user == FindUser(username, password)
           token == generateToken(user, JWT_SECRET, now)
       IN  /\ login' = [username |-> username, password |-> password]
           /\ IF user = NoUser
              THEN /\ res' = Res(401, TRUE, "error", "Credenciales invalidas")
                   /\ UNCHANGED issued
              ELSE /\ token \in Known \/ Cardinality(issued) < MaxLogins
                   /\ res' = [Res(200, TRUE, "token", "") EXCEPT !.token = token]
                   /\ issued' = issued \cup
                        {[token |-> token, at |-> now,
                          claim |-> [id |-> user.id, username |-> user.username,
                                     role |-> user.role]]}
  /\ auth' = NoAuth
  /\ UNCHANGED <<server, now, ticks, USERS, JWT_SECRET, products, nextProductId,
                 productos, expiredSeen, req,
                 assigned>>

\* app.post("/auth") of the /productos server
ProductosAuth ==
  /\ server = "productos"
  /\ Idle
  /\ \E username \in Usernames, password \in Passwords :
       LET token == jwt_sign([username |-> username], JWT_SECRET, EXPIRES_10M, now)
       IN  /\ login' = [username |-> username, password |-> password]
           /\ IF username = Str("emilys") /\ password = Str("emilyspass")
              THEN /\ token \in Known \/ Cardinality(issued) < MaxLogins
                   /\ res' = [Res(200, TRUE, "token", "") EXCEPT !.token = token]
                   /\ issued' = issued \cup
                        {[token |-> token, at |-> now,
                          claim |-> [username |-> username]]}
              ELSE /\ res' = Res(401, TRUE, "message", "Credenciales invalidas")
                   /\ UNCHANGED issued
  /\ auth' = NoAuth
  /\ UNCHANGED <<server, now, ticks, USERS, JWT_SECRET, products, nextProductId,
                 productos, expiredSeen, req,
                 assigned>>

\* app.get('/products')
ProductsGetAll ==
  /\ server = "products"
  /\ Idle
  /\ res' = Res(200, TRUE, "products", "")
  /\ auth' = NoAuth
  /\ login' = NoLogin
  /\ UNCHANGED <<server, now, ticks, USERS, JWT_SECRET, products, nextProductId,
                 productos, issued, expiredSeen, req,
                 assigned>>

\* app.get('/products/:id')
ProductsGetOne ==
  /\ server = "products"
  /\ Idle
  /\ \E id \in PathIds :
       res' = IF FindIndex(products, id) = 0
              THEN Res(404, TRUE, "error", "Producto no encontrado")
              ELSE Res(200, TRUE, "product", "")
  /\ auth' = NoAuth
  /\ login' = NoLogin
  /\ UNCHANGED <<server, now, ticks, USERS, JWT_SECRET, products, nextProductId,
                 productos, issued, expiredSeen, req,
                 assigned>>

\* app.get("/productos")
ProductosGetAll ==
  /\ server = "productos"
  /\ Idle
  /\ res' = Res(200, TRUE, "products", "")
  /\ auth' = NoAuth
  /\ login' = NoLogin
  /\ UNCHANGED <<server, now, ticks, USERS, JWT_SECRET, products, nextProductId,
                 productos, issued, expiredSeen, req,
                 assigned>>

-----------------------------------------------------------------------------
(* Protected routes: the middleware step, then the handler step *)

\* a middleware whose error branch does not return
ProceedAlways(d) == TRUE

\* whether the handler runs after the middleware decided d: it does not
\* when the middleware answered (return res.status(...)), it does on next()
Proceed(d) == d.next

\* a middleware that remembers the last request it admitted and admits the
\* next one on its strength
MiddlewareSticky(h) ==
  IF auth.next THEN Admit(auth.user, auth.token)
  ELSE IF server = "products" THEN authenticateToken(h, JWT_SECRET, now)
  ELSE verificarToken(h, JWT_SECRET, now)

\* the middleware of the running server on a header, reading the shared
\* secret and the clock
Middleware(h) ==
  IF server = "products" THEN authenticateToken(h, JWT_SECRET, now)
  ELSE verificarToken(h, JWT_SECRET, now)

\* a middleware that keeps the verified claim in the shared principal list
\* instead of on the request
GuardStepSharedUser(d, h, r) ==
  /\ auth' = [ran |-> TRUE, header |-> h, next |-> d.next, err |-> d.err,
              user |-> d.user, token |-> d.token]
  /\ IF Proceed(d)
     THEN /\ req' = [method |-> r.method, path |-> r.path, id |-> r.id,
                     body |-> r.body, user |-> NoUser]
          /\ res' = NoRes
          /\ USERS' = Append(USERS, d.user)
     ELSE /\ req' = NoReq
          /\ res' = Res(d.status, d.json, IF d.json THEN "error" ELSE "", d.body)
          /\ UNCHANGED USERS
  /\ expiredSeen' = IF d.err = "jwt expired" THEN expiredSeen \cup {d.token}
                    ELSE expiredSeen
  /\ login' = NoLogin
  /\ UNCHANGED <<server, now, ticks, JWT_SECRET, products, nextProductId,
                 productos, issued,
                 assigned>>

\* the middleware has decided d for request r with header h: it answers, or
\* it sets req.user and calls next(), which makes the route's handler the
\* next thing to run
GuardStep(d, h, r) ==
  /\ auth' = [ran |-> TRUE, header |-> h, next |-> d.next, err |-> d.err,
              user |-> d.user, token |-> d.token]
  /\ IF Proceed(d)
     THEN /\ req' = [method |-> r.method, path |-> r.path, id |-> r.id,
                     body |-> r.body, user |-> d.user]
          /\ res' = NoRes
     ELSE /\ req' = NoReq
          /\ res' = Res(d.status, d.json, IF d.json THEN "error" ELSE "", d.body)
  /\ expiredSeen' = IF d.err = "jwt expired" THEN expiredSeen \cup {d.token}
                    ELSE expiredSeen
  /\ login' = NoLogin
  /\ UNCHANGED <<server, now, ticks, USERS, JWT_SECRET, products, nextProductId,
                 productos, issued,
                 assigned>>

\* a request to a protected route of the running server arrives; when the
\* middleware answers it, which of the requests it was makes no difference
Protected(H, R) ==
  /\ Idle
  /\ \E h \in H :
       LET d == Middleware(h)
       IN  \E r \in (IF Proceed(d) THEN R ELSE {CHOOSE x \in R : TRUE}) :
             /\ (Proceed(d) /\ r.method = "POST") =>
                  IF server = "products"
                  THEN nextProductId <= MaxProductId /\ Len(products) < MaxProducts
                  ELSE Len(productos) < MaxProducts
             /\ GuardStep(d, h, r)

\* authenticateToken in front of POST /products, PUT and DELETE /products/:id
RunAuthenticateToken(H, R) == server = "products" /\ Protected(H, R)

\* verificarToken in front of POST /productos, PUT and DELETE /productos/:id
RunVerificarToken(H, R) == server = "productos" /\ Protected(H, R)

Handling(s, method) == server = s /\ req # NoReq /\ req.method = method

\* a create handler that numbers the new product by the length of the list
\* and leaves the counter alone
ProductsPostLengthId ==
  /\ Handling("products", "POST")
  /\ LET b == req.body
     IN  IF Falsy(b.name) \/ IsNullish(b.price) \/ IsNullish(b.stock)
         THEN /\ res' = Res(400, TRUE, "error", "name, price y stock son requeridos")
              /\ UNCHANGED <<products, assigned>>
         ELSE /\ products' = Append(products,
                               [id |-> Len(products) + 1, name |-> b.name,
                                price |-> Number(b.price), stock |-> Number(b.stock)])
              /\ assigned' = assigned \cup {Len(products) + 1}
              /\ res' = Res(201, TRUE, "product", "")
  /\ req' = NoReq
  /\ UNCHANGED <<server, now, ticks, USERS, JWT_SECRET, nextProductId, productos,
                 issued, expiredSeen, login, auth>>

\* app.post('/products')
ProductsPost ==
  /\ Handling("products", "POST")
  /\ LET b == req.body
     IN  IF Falsy(b.name) \/ IsNullish(b.price) \/ IsNullish(b.stock)
         THEN /\ res' = Res(400, TRUE, "error", "name, price y stock son requeridos")
              /\ UNCHANGED <<products, nextProductId, assigned>>
         ELSE /\ products' = Append(products,
                               [id |-> nextProductId, name |-> b.name,
                                price |-> Number(b.price), stock |-> Number(b.stock)])
              /\ nextProductId' = nextProductId + 1
              /\ assigned' = assigned \cup {nextProductId}
              /\ res' = Res(201, TRUE, "product", "")
  /\ req' = NoReq
  /\ UNCHANGED <<server, now, ticks, USERS, JWT_SECRET, productos, issued,
                 expiredSeen, login, auth>>

\* a PUT that keeps the old value of a field the body does not give
MergeProvided(p, b) ==
  [p EXCEPT !.name = IF b.name = Undef THEN @ ELSE b.name,
            !.price = IF b.price = Undef THEN @ ELSE b.price,
            !.stock = IF b.stock = Undef THEN @ ELSE b.stock]

\* { ...products[pIndex], name, price, stock }
Spread(p, b) == [p EXCEPT !.name = b.name, !.price = b.price, !.stock = b.stock]

\* producto.name = name; producto.price = price; producto.stock = stock
Assign(p, b) == [p EXCEPT !.name = b.name, !.price = b.price, !.stock = b.stock]

\* app.put('/products/:id')
ProductsPut ==
  /\ Handling("products", "PUT")
  /\ LET pIndex == FindIndex(products, req.id)
     IN  IF pIndex = 0
         THEN /\ res' = Res(404, TRUE, "error", "Producto no encontrado")
              /\ UNCHANGED products
         ELSE /\ products' = [products EXCEPT ![pIndex] = Spread(@, req.body)]
              /\ res' = Res(200, TRUE, "product", "")
  /\ req' = NoReq
  /\ UNCHANGED <<server, now, ticks, USERS, JWT_SECRET, nextProductId, productos,
                 issued, expiredSeen, login, auth,
                 assigned>>

\* app.delete('/products/:id')
ProductsDelete ==
  /\ Handling("products", "DELETE")
  /\ LET pIndex == FindIndex(products, req.id)
     IN  IF pIndex = 0
         THEN /\ res' = Res(404, TRUE, "error", "Producto no encontrado")
              /\ UNCHANGED products
         ELSE /\ products' = RemoveAt(products, pIndex)
              /\ res' = Res(200, TRUE, "deleted", "")
  /\ req' = NoReq
  /\ UNCHANGED <<server, now, ticks, USERS, JWT_SECRET, nextProductId, productos,
                 issued, expiredSeen, login, auth,
                 assigned>>

\* app.post("/productos")
ProductosPost ==
  /\ Handling("productos", "POST")
  /\ productos' = Append(productos,
                    [id |-> Len(productos) + 1, name |-> req.body.name,
                     price |-> req.body.price, stock |-> req.body.stock])
  /\ assigned' = assigned \cup {Len(productos) + 1}
  /\ res' = Res(201, TRUE, "product", "")
  /\ req' = NoReq
  /\ UNCHANGED <<server, now, ticks, USERS, JWT_SECRET, products, nextProductId,
                 issued, expiredSeen, login, auth>>

\* app.put("/productos/:id"): the first product with that id is assigned to
ProductosPut ==
  /\ Handling("productos", "PUT")
  /\ LET i == FindIndex(productos, req.id)
     IN  IF i = 0
         THEN /\ res' = Res(404, TRUE, "message", "Producto no encontrado")
              /\ UNCHANGED productos
         ELSE /\ productos' = [productos EXCEPT ![i] = Assign(@, req.body)]
              /\ res' = Res(200, TRUE, "product", "")
  /\ req' = NoReq
  /\ UNCHANGED <<server, now, ticks, USERS, JWT_SECRET, products, nextProductId,
                 issued, expiredSeen, login, auth,
                 assigned>>

\* app.delete("/productos/:id")
ProductosDelete ==
  /\ Handling("productos", "DELETE")
  /\ productos' = FilterOut(productos, req.id)
  /\ res' = Res(200, TRUE, "message", "Producto eliminado")
  /\ req' = NoReq
  /\ UNCHANGED <<server, now, ticks, USERS, JWT_SECRET, products, nextProductId,
                 issued, expiredSeen, login, auth,
                 assigned>>

Handlers ==
  \/ ProductsPost
  \/ ProductsPut
  \/ ProductsDelete
  \/ ProductosPost
  \/ ProductosPut
  \/ ProductosDelete

Unprotected ==
  \/ ProductsAuth
  \/ ProductosAuth
  \/ ProductsGetAll
  \/ ProductsGetOne
  \/ ProductosGetAll

\* runs that exercise the clock and every header, with one request of each
\* method
Next ==
  \/ Tick
  \/ Unprotected
  \/ RunAuthenticateToken(Headers, FewRequests)
  \/ RunVerificarToken(Headers, FewRequests)
  \/ Handlers

Spec == Init /\ [][Next]_vars

\* runs that exercise the product list with every request, at one clock
\* reading, with no header or a valid one
NextCrud ==
  \/ Unprotected
  \/ RunAuthenticateToken(FewHeaders, Requests)
  \/ RunVerificarToken(FewHeaders, Requests)
  \/ Handlers

SpecCrud == Init /\ [][NextCrud]_vars

-----------------------------------------------------------------------------
(* Properties *)

\* the last exchange went through the middleware of a protected route
GuardRan == auth.ran

\* the header is the scheme "Bearer", one space and at most one more word
WellFormedBearer(h) ==
  /\ h.present
  /\ Len(h.atoms) \in {2, 3}
  /\ h.atoms[1] = W("Bearer")
  /\ h.atoms[2] = SP
  /\ Len(h.atoms) = 3 => h.atoms[3] # SP

Bearer(tok) == Hdr(<<W("Bearer"), SP, tok>>)

lists == <<products, nextProductId, productos>>

\* the product list of the running server
TargetList == IF server = "products" THEN products ELSE productos

C2_StatusByFailureKind ==
  (GuardRan /\ ~auth.next) =>
     /\ res.json
     /\ res.status = IF HeaderFalsy(auth.header) \/ ~WellFormedBearer(auth.header)
                     THEN 401 ELSE 403

\* C3: a request whose Authorization header is present but not of the form
\* "Bearer <token>" is not admitted: the handler does not run.
C3_OnlyBearerAdmitted ==
  (GuardRan /\ ~HeaderFalsy(auth.header) /\ ~WellFormedBearer(auth.header)) =>
     ~auth.next /\ req = NoReq

\* C4 as stated: a token issued at t0 is admitted at every clock reading up
\* to and including t0 + ttl, and rejected as expired after it.
C4_ExpiryInclusive ==
  \A e \in issued :
    (GuardRan /\ auth.header = Bearer(e.token)) =>
       IF now <= e.at + Ttl(server) THEN auth.next
       ELSE ~auth.next /\ auth.err = "jwt expired"

\* C4 amended: a token issued at t0 is admitted at every clock reading t with
\* t0 <= t < t0 + ttl and rejected as expired at every t >= t0 + ttl; a token
\* once rejected as expired is not admitted again.
C4_ExpiryExclusive ==
  /\ \A e \in issued :
       (GuardRan /\ auth.header = Bearer(e.token)) =>
          IF now < e.at + Ttl(server) THEN auth.next
          ELSE ~auth.next /\ auth.err = "jwt expired"
  /\ (GuardRan /\ auth.next) => auth.token \notin expiredSeen

C4_Witness ==
  \E e \in issued :
    /\ GuardRan
    /\ auth.header = Bearer(e.token)
    /\ now = e.at + Ttl(server)
    /\ auth.err = "jwt expired"

\* C5: the middleware admits only tokens that login issued; a three-segment
\* token that is none of them (its claim or its signature was altered, or it
\* was signed with another key) is rejected with "invalid signature", and no
\* claim is taken from it.
C5_OnlySignedClaimsAdmitted ==
  GuardRan =>
    /\ auth.next => auth.token \in Known
    /\ ("jwt" \in DOMAIN auth.token /\ Len(auth.token.jwt) = 3
          /\ auth.token \notin Known) =>
         /\ ~auth.next
         /\ auth.err = "invalid signature"
         /\ auth.user = NoUser
         /\ req = NoReq

C5_Witness ==
  \E e \in issued :
    /\ GuardRan
    /\ auth.token = AlterClaim(e.token)
    /\ now < e.at + Ttl(server)
    /\ auth.err = "invalid signature"

\* the (username, password) pairs that can log in to the running server
Principals ==
  IF server = "products"
  THEN {[username |-> USERS[i].username, password |-> USERS[i].password] :
          i \in 1..Len(USERS)}
  ELSE {[username |-> Str("emilys"), password |-> Str("emilyspass")]}

\* C6: POST /auth answers 200 with a JSON body holding a token issued at that
\* moment exactly when the submitted pair is a principal's pair; otherwise it
\* answers 401 with a JSON error and no token.
C6_LoginExactlyOnMatch ==
  [][ ("none" \notin DOMAIN login') =>
        IF [username |-> login'.username, password |-> login'.password]
             \in Principals
        THEN /\ res'.status = 200
             /\ res'.json
             /\ res'.key = "token"
             /\ \E e \in issued' : e.token = res'.token /\ e.at = now
             /\ issued' = issued \cup {e \in issued' : e.token = res'.token}
        ELSE /\ res'.status = 401
             /\ res'.json
             /\ res'.key \in {"error", "message"}
             /\ res'.token = NoToken
             /\ issued' = issued ]_vars

C6_Witness ==
  /\ "none" \notin DOMAIN login
  /\ login.username = Str("admin")
  /\ login.password = Str("emilyspass")
  /\ res.status = 401

C8_GuardWritesNoSharedState ==
  [][ (req = NoReq /\ auth'.ran) =>
        /\ shared' = shared
        /\ issued' = issued
        /\ now' = now ]_vars

\* the middleware has admitted a request in a run where the lists had
\* already changed
C8_Witness ==
  /\ GuardRan
  /\ auth.next
  /\ req # NoReq
  /\ TargetList # InitProducts

\* the decision the middleware of a freshly started server reaches on header
\* h at clock reading t
Isolated(h, t) ==
  IF server = "products" THEN authenticateToken(h, SecretOf(server), t)
  ELSE verificarToken(h, SecretOf(server), t)

PutFound ==
  /\ req # NoReq
  /\ req.method = "PUT"
  /\ FindIndex(TargetList, req.id) # 0

\* C10 as stated: a PUT of an existing product keeps the value of every
\* field the body does not provide.
C10_PartialUpdateKeepsOthers ==
  [][ PutFound =>
        LET i == FindIndex(TargetList, req.id)
        IN  /\ req.body.name = Undef => TargetList'[i].name = TargetList[i].name
            /\ req.body.price = Undef => TargetList'[i].price = TargetList[i].price
            /\ req.body.stock = Undef => TargetList'[i].stock = TargetList[i].stock ]_vars

\* C10 amended: a PUT of an existing product assigns name, price and stock
\* from the body, a field the body does not provide becoming undefined; the
\* id of the product, and every other product of the list, are unchanged.
C10_PutAssignsAllThree ==
  [][ PutFound =>
        LET i == FindIndex(TargetList, req.id)
        IN  /\ Len(TargetList') = Len(TargetList)
            /\ TargetList'[i] = [id |-> TargetList[i].id, name |-> req.body.name,
                                 price |-> req.body.price, stock |-> req.body.stock]
            /\ \A j \in 1..Len(TargetList) : j # i => TargetList'[j] = TargetList[j]
            /\ nextProductId' = nextProductId ]_vars

\* a PUT with only the name has been applied to a product
C10_Witness ==
  /\ auth.ran
  /\ auth.next
  /\ res.status = 200
  /\ res.key = "product"
  /\ req = NoReq
  /\ server = "products"
  /\ nextProductId = 3
  /\ \E i \in 1..Len(TargetList) :
       /\ TargetList[i].name = Str("blusa")
       /\ TargetList[i].price = Undef
       /\ TargetList[i].stock = Undef

\* the ids of the products of a list
Ids(list) == {list[i].id : i \in 1..Len(list)}

\* no two products of the list have the same id
UniqueIds(list) ==
  \A i, j \in 1..Len(list) : list[i].id = list[j].id => i = j

\* C11: in the /products server no two products of the list have the same
\* id and nextProductId is greater than every id in the list and than every
\* id ever assigned; a step that adds a product gives it an id that no
\* product had before, deleted ones included, and no step changes the id of
\* a product that stays in the list.
C11_IdsUniqueNeverReused ==
  /\ [](server = "products" =>
          /\ UniqueIds(products)
          /\ \A id \in Ids(products) \cup assigned : id < nextProductId)
  /\ [][server = "products" =>
          /\ Ids(products') \ Ids(products) # {} =>
                /\ Len(products') = Len(products) + 1
                /\ Ids(products') \ Ids(products) = {products'[Len(products')].id}
                /\ products'[Len(products')].id \notin assigned
          /\ nextProductId' >= nextProductId]_vars

\* a product has been created after one of the earlier products was deleted
C11_Witness ==
  /\ server = "products"
  /\ req = NoReq
  /\ res.status = 201
  /\ \E id \in assigned : id \notin Ids(products)
  /\ \E id \in Ids(products) : id \notin Ids(InitProducts)

\* C12 as stated: in the /productos server no two products of the list have
\* the same id.
C12_ProductosIdsUnique == server = "productos" => UniqueIds(productos)

====
